---- MODULE Spec2Model ----
(***************************************************************************)
(* Essay-eval-09: the batch essay submission orchestrator of the          *)
(* EssayEvaluator React component                                         *)
(* (src/frontend/essay-evaluator/src/components/EssayEvaluator.jsx, the   *)
(* second component of that file, lines 1067-1645).                       *)
(*                                                                         *)
(* A submission run is one invocation of handleSubmit.  Every function    *)
(* the run calls (processUploadedFiles, processFile, processPastedText,   *)
(* processEssayBatch, handleSingleEssayResponseJson, ...) is the closure  *)
(* of the render in which Evaluate was clicked, so the state values they  *)
(* READ (files, essayText, sessionId) are the values of that render; the  *)
(* values they WRITE go to the component state through the setters.       *)
(* One action of the model is one uninterrupted piece of JavaScript: from *)
(* an event (click, response, timer) to the next await of a fetch or of a *)
(* timer.                                                                  *)
(***************************************************************************)
EXTENDS Integers, Sequences, FiniteSets, TLC

\* ---------------------------------------------------------------- bounds
MaxQueue == 7
MaxFiles == 2
MaxExtras == 3
MaxExtrasSched == 2
MaxLines == 4
MaxExtrasRubric == 4
MaxExtrasFiles == 3
MaxExtrasP5 == 2
MaxName == 3

\* ------------------------------------------------------ program constants
batchSize == 3
BatchThreshold == 5
MAX_FILES == 10
StaggerMs == 200

\* the step of the clock
TickMs == StaggerMs \div 2

NULL == "null"
Sessions == {"s1", "s2"}

\* ------------------------------------------------------------- arithmetic
Min(a, b) == IF a < b THEN a ELSE b
Max(a, b) == IF a > b THEN a ELSE b

\* Math.ceil(n / d) for n >= 0, d > 0
Ceil(n, d) == (n + d - 1) \div d

\* Math.round((a / b) * 100) for a >= 0, b > 0 (round half up)
RoundPct(a, b) == (200 * a + b) \div (2 * b)

\* Array.prototype.slice(from, to) with 0-based from (inclusive), to (exclusive)
Slice(s, from, to) == [k \in 1..(to - from) |-> s[from + k]]

RECURSIVE Flatten(_)
Flatten(ss) == IF ss = <<>> THEN <<>> ELSE Head(ss) \o Flatten(Tail(ss))

RECURSIVE SumSeq(_)
SumSeq(s) == IF s = <<>> THEN 0 ELSE Head(s) + SumSeq(Tail(s))

\* ------------------------------------------------------------- pasted text
(* A text is the sequence of its lines (text.split('\n')); the empty string *)
(* is the one-line text <<"">>.  Lines are drawn from a small alphabet; the *)
(* record of a line gives what the code reads of it: its length, how often  *)
(* each marker pattern matches in it, whether it is empty, and whether it   *)
(* is a separator line.                                                     *)
LineInfo(l) ==
    CASE l = ""   -> [len |-> 0,   sn |-> 0, st |-> 0, nm |-> 0, start |-> FALSE, sep |-> FALSE]
      [] l = "SN" -> [len |-> 15,  sn |-> 1, st |-> 0, nm |-> 1, start |-> TRUE,  sep |-> FALSE]
      [] l = "S"  -> [len |-> 10,  sn |-> 0, st |-> 1, nm |-> 0, start |-> TRUE,  sep |-> FALSE]
      [] l = "N"  -> [len |-> 7,   sn |-> 0, st |-> 0, nm |-> 1, start |-> TRUE,  sep |-> FALSE]
      [] l = "xN" -> [len |-> 12,  sn |-> 0, st |-> 0, nm |-> 1, start |-> FALSE, sep |-> FALSE]
      [] l = "b"  -> [len |-> 17,  sn |-> 0, st |-> 0, nm |-> 0, start |-> FALSE, sep |-> FALSE]
      [] l = "B"  -> [len |-> 120, sn |-> 0, st |-> 0, nm |-> 0, start |-> FALSE, sep |-> FALSE]
      [] l = "---" -> [len |-> 3,  sn |-> 0, st |-> 0, nm |-> 0, start |-> FALSE, sep |-> TRUE]
      [] OTHER    -> [len |-> 10001, sn |-> 0, st |-> 0, nm |-> 0, start |-> FALSE, sep |-> FALSE]

\* String.prototype.length of the text the lines make (joined by '\n')
TextLen(t) ==
    IF t = <<>> THEN 0
    ELSE SumSeq([k \in 1..Len(t) |-> LineInfo(t[k]).len]) + (Len(t) - 1)

\* the lines hold a non-whitespace character: text.trim().length > 0
HasContent(t) == \E k \in 1..Len(t) : t[k] # ""

\* String.prototype.trim: the empty lines at both ends go (<<>> is '')
Trim(t) ==
    IF ~HasContent(t) THEN <<>>
    ELSE LET first == CHOOSE k \in 1..Len(t) : t[k] # "" /\ \A j \in 1..(k - 1) : t[j] = ""
             last  == CHOOSE k \in 1..Len(t) : t[k] # "" /\ \A j \in (k + 1)..Len(t) : t[j] = ""
         IN  Slice(t, first - 1, last)

\* patterns.some(pattern => pattern.test(line)): a match anywhere in the line
isMarkerLine(l) == LineInfo(l).sn + LineInfo(l).st + LineInfo(l).nm > 0

\* (text.match(/Student Name:/gi) || []).length and the two other counts, summed
totalMatches(t) ==
    SumSeq([k \in 1..Len(t) |-> LineInfo(t[k]).sn + LineInfo(t[k]).st + LineInfo(t[k]).nm])

\* the line-marker loop of splitEssaysText: st = [essays, currentEssay, foundAnyMarker]
RECURSIVE markerLoop(_, _, _)
markerLoop(lines, i, st) ==
    IF i > Len(lines) THEN st
    ELSE LET line == lines[i]
         IN  IF isMarkerLine(line) /\ HasContent(st.currentEssay)
             THEN markerLoop(lines, i + 1,
                      [essays |-> Append(st.essays, Trim(st.currentEssay)),
                       currentEssay |-> <<line>>,
                       foundAnyMarker |-> TRUE])
             ELSE markerLoop(lines, i + 1,
                      [st EXCEPT !.currentEssay = Append(st.currentEssay, line)])

\* the consecutive '\n' characters that the run of empty lines a..b makes
NewlinesOfRun(t, a, b) ==
    (IF a > 1 THEN 1 ELSE 0) + (b - a + 1) - (IF b = Len(t) THEN 1 ELSE 0)

\* a maximal run of empty lines a..b that /\n{3,}/ matches
IsCutRun(t, a, b) ==
    /\ a <= b
    /\ \A k \in a..b : t[k] = ""
    /\ (a = 1 \/ t[a - 1] # "")
    /\ (b = Len(t) \/ t[b + 1] # "")
    /\ NewlinesOfRun(t, a, b) >= 3

\* text.split(/\n{3,}/), the pieces of the text from line i on
RECURSIVE splitBlankRuns(_, _)
splitBlankRuns(t, i) ==
    LET starts == {a \in i..Len(t) : \E b \in a..Len(t) : IsCutRun(t, a, b)}
    IN  IF starts = {} THEN << Slice(t, i - 1, Len(t)) >>
        ELSE LET a == CHOOSE x \in starts : \A y \in starts : x <= y
                 b == CHOOSE y \in a..Len(t) : IsCutRun(t, a, y)
             IN  << Slice(t, i - 1, a - 1) >> \o splitBlankRuns(t, b + 1)

\* line j is matched by /\n---+\n|\n\*\*\*+\n|\n___+\n/ (a match uses up the
\* newline that a separator on the next line would need)
RECURSIVE isSeparatorMatch(_, _)
isSeparatorMatch(t, j) ==
    /\ 1 < j
    /\ j < Len(t)
    /\ LineInfo(t[j]).sep
    /\ ~isSeparatorMatch(t, j - 1)

\* text.split(/\n---+\n|\n\*\*\*+\n|\n___+\n/), the pieces from line i on
RECURSIVE splitSeparators(_, _)
splitSeparators(t, i) ==
    LET seps == {j \in i..Len(t) : isSeparatorMatch(t, j)}
    IN  IF seps = {} THEN << Slice(t, i - 1, Len(t)) >>
        ELSE LET j == CHOOSE x \in seps : \A y \in seps : x <= y
             IN  << Slice(t, i - 1, j - 1) >> \o splitSeparators(t, j + 1)

\* .filter(essay => essay.trim().length > 100)
longOnly(segs) == SelectSeq(segs, LAMBDA e : TextLen(Trim(e)) > 100)

splitEssaysText(text) ==
    LET st1 == markerLoop(text, 1,
                 [essays |-> <<>>, currentEssay |-> <<>>, foundAnyMarker |-> FALSE])
        e1 == IF HasContent(st1.currentEssay)
              THEN Append(st1.essays, Trim(st1.currentEssay))
              ELSE st1.essays
        e2 == IF ~st1.foundAnyMarker \/ Len(e1) <= 1
              THEN longOnly(splitBlankRuns(text, 1))
              ELSE e1
        e3 == IF Len(e2) <= 1 /\ TextLen(text) > 10000
              THEN longOnly(splitSeparators(text, 1))
              ELSE e2
    IN  e3

\* the essays that the batched branch of processPastedText works on, <<>> when
\* the text goes out as one request
pastedEssays(essayText) ==
    LET matches == totalMatches(essayText)
        multipleSectionsIndicator == Len(splitBlankRuns(essayText, 1)) > 2
        estimatedEssayCount == Max(1, matches)
    IN  IF (matches > 1 \/ (multipleSectionsIndicator /\ matches > 0))
           /\ estimatedEssayCount > BatchThreshold
           /\ Len(splitEssaysText(essayText)) > BatchThreshold
        THEN splitEssaysText(essayText)
        ELSE <<>>

\* a text of n essays, each a marker line and a body line
RECURSIVE markedText(_)
markedText(n) == IF n = 0 THEN <<>> ELSE markedText(n - 1) \o <<"N", "b">>

\* ------------------------------------------------- the saved file name
\* the characters a report filename is made of: a letter, a digit, the dot,
\* the underscore, the hyphen, the space, the tab, the slash and a letter
\* with an accent
Chars == {"a", "7", ".", "_", "-", " ", "\t", "/", "e'"}

\* \s
isWhitespace(c) == c \in {" ", "\t"}

\* the class [a-z0-9._-\s] with the flag i: in `_-\s` the hyphen stands for
\* itself, because \s is no end of a range
inClass(c) == c \in {"a", "7", ".", "_", "-"} \/ isWhitespace(c)

\* .replace(/[^a-z0-9._-\s]/gi, '_')
replaceOthers(name) == [k \in 1..Len(name) |-> IF inClass(name[k]) THEN name[k] ELSE "_"]

\* .replace(/_{2,}/g, '_')
RECURSIVE collapseUnderscores(_)
collapseUnderscores(name) ==
    IF Len(name) < 2 THEN name
    ELSE IF name[1] = "_" /\ name[2] = "_" THEN collapseUnderscores(Tail(name))
    ELSE << name[1] >> \o collapseUnderscores(Tail(name))

\* a.download = result.filename.replace(...).replace(...)
sanitizeFilename(name) == collapseUnderscores(replaceOthers(name))

\* ------------------------------------------------- the Evaluation Service
(* What the service answers to one POST /evaluate/ (a collaborator: any of  *)
(* these can come back for any request).  items are the entries of          *)
(* `results` of a 'multiple' answer, flagged or not.                        *)
Resp(status, sid, items) == [status |-> status, session_id |-> sid, items |-> items]

Nominal == Resp("single", "s1", <<>>)

OddResponses ==
    { Resp("single", "s2", <<>>),
      Resp("single", NULL, <<>>),
      Resp("multiple", "s1", <<>>),
      Resp("multiple", "s1", <<"ok", "flagged">>),
      Resp("multiple", "s2", <<"ok", "flagged">>),
      Resp("multiple", NULL, <<"ok">>),
      Resp("empty", NULL, <<>>),
      Resp("http", NULL, <<>>),
      Resp("net", NULL, <<>>) }

Responses == {Nominal} \cup OddResponses

\* ------------------------------------------------------------------ state
VARIABLES
    files,              \* useState([]): the queue of essay files
    essayText,          \* useState(''): the pasted text
    activeTab,          \* useState('upload')
    isApiKeyVerified,   \* apiKey.trim() is set and isApiKeyVerified
    results,            \* useState([]): the results list
    evaluations,        \* useState([]): what Download All sends
    sessionId,          \* useState(null)
    isLoading,          \* useState(false): disables Evaluate
    error,              \* useState(null), by kind of message
    batchProgress,      \* useState(0)
    runs,               \* the invocations of handleSubmit, with their closures
                        \* and, for the record, the chunks they cut (chunks),
                        \* the requests they sent (sent), the answers they
                        \* got (log) and the delays they waited (delays)
    inflight,           \* the /evaluate/ requests that wait for their answer
    downloads,          \* the /download-report/ requests that wait
    nextId,             \* the ids handed out so far (Date.now() + Math.random())
    removes,            \* handleRemoveResult calls so far
    extras,             \* the events still to come that are not part of one
                        \* plain run: answers other than Nominal, removals,
                        \* downloads and further runs
    splitInput,         \* the `text` a call of splitEssaysText is given
    splitOutput,        \* the `essays` it returns, once it has returned
    rubricText,         \* useState(''): the rubric textarea
    rubricFile,         \* useState(null): the chosen rubric file
    selectedPresetRubric, \* useState(''): the id of the chosen preset
    isRubricLocked,     \* useState(false)
    lockedRubricText,   \* useState('')
    rubricUploads,      \* the /upload-rubric-file/ requests that wait
    textAtLock,         \* for the record: rubricText when the lock was last
                        \* turned on
    timers,             \* the setTimeout callbacks of Download All that wait
    clock,              \* the time, in ms
    downloadAlls,       \* for the record: the Download All actions so far
    started,            \* for the record: the downloads started so far
    dlLog,              \* for the record: what became of each handleDownload
                        \* call ("refused", "started") and of each download
                        \* that was answered ("failed", "saved")
    filenameIn,         \* the `result.filename` a report is saved for
    savedAs,            \* the `a.download` made of it, once it is made
    rejections,         \* for the record: the calls of handleSubmit that one
                        \* of its checks has ended
    zips,               \* the /generate-all-zip/ requests that wait
    zipLog              \* for the record: the payload of each of them, and
                        \* the results shown when it went out

\* the segmenter called on its own
segVars == << splitInput, splitOutput >>

\* the rubric selection
rubricVars == << rubricText, rubricFile, selectedPresetRubric, isRubricLocked,
                 lockedRubricText, rubricUploads, textAtLock >>

\* the staggered downloads
dlVars == << timers, clock, downloadAlls, started >>

\* the name a report is saved under
saveVars == << filenameIn, savedAs >>

\* the zip of all reports
zipVars == << zips, zipLog >>

vars == << files, essayText, activeTab, isApiKeyVerified, results, evaluations,
           sessionId, isLoading, error, batchProgress, runs, inflight,
           downloads, nextId, removes, extras, segVars, rubricVars, dlVars,
           dlLog, saveVars, rejections, zipVars >>

\* n files named 1..n
queueOf(n) == [k \in 1..n |-> k]

PasteTexts == { <<"">>, <<"b">>, markedText(2), markedText(BatchThreshold + 1) }

\* ------------------------------------------------------------- scheduling
\* Math.ceil(files.length / batchSize)
totalBatchesOf(n) == Ceil(n, batchSize)

\* faulty variant: batchEnd one short of the chunk
mutSliceShort(queue, batchIndex) ==
    Slice(queue, batchIndex * batchSize,
          Min(batchIndex * batchSize + batchSize - 1, Len(queue)))

\* files.slice(batchStart, batchEnd)
currentBatchOf(queue, batchIndex) ==
    LET batchStart == batchIndex * batchSize
        batchEnd == Min(batchStart + batchSize, Len(queue))
    IN  Slice(queue, batchStart, batchEnd)

\* faulty variant: the requests of the chunk go out together (no await)
mutSendAll(batch, pos) == (pos + 1)..Len(batch)

\* `for (const file of currentBatchFiles) { ... await processFile(file) ... }`:
\* the positions of the batch whose request goes out once position pos has
\* been answered (pos = 0: the batch starts)
nextSends(batch, pos) == IF pos < Len(batch) THEN {pos + 1} ELSE {}

\* faulty variant: no try/catch around processFile
mutAlwaysAborts(kind) == TRUE

\* does an exception of one dispatch leave the loop?  processUploadedFiles
\* wraps processFile in try/catch, processPastedText does not wrap
\* processEssayBatch, and the exception reaches the catch of handleSubmit
failureAborts(kind) == kind \in {"paste", "pasteBatch"}

\* faulty variant: [...newResults, ...prev]
mutPrepend(prev, new) == new \o prev

\* setResults(prev => [...prev, ...newResults])
appendResults(prev, new) == prev \o new

\* faulty variant: filter(result => result.id > id)
mutRemoveUpTo(prev, id) == SelectSeq(prev, LAMBDA r : r.id > id)

\* setResults(prev => prev.filter(result => result.id !== id))
removeResult(prev, id) == SelectSeq(prev, LAMBDA r : r.id # id)

\* ------------------------------------------------------ response handling
MaxOf(S) == CHOOSE x \in S : \A y \in S : y <= x

\* the entry of the results list for one essay of an answer; part is 0 for a
\* 'single' answer and index + 1 for the entries of a 'multiple' one, whose
\* filename is result.filename || `${filename}_part${index + 1}`.  The entry
\* is built from the score fields alone: no `error` is copied from the item
\* (item: what the service said of the essay, kept for the record).
resultEntry(id, q, sid, part, item) ==
    [id |-> id, filename |-> [of |-> q.ix, part |-> part], sessionId |-> sid,
     error |-> NULL, run |-> q.run, ix |-> q.ix, part |-> part, item |-> item]

\* processFile / processEssayBatch from the answer on, with
\* handleSingleEssayResponseJson and handleMultipleEssaysResponse: whether it
\* throws, the entries it appends, and the session id it stores ("keep": none).
\* closureSid is the sessionId of the render that started the run.
handleResponse(closureSid, q, resp, id0) ==
    CASE resp.status = "single" /\ resp.session_id # NULL ->
           [threw |-> FALSE,
            newResults |-> << resultEntry(id0, q, resp.session_id, 0, "ok") >>,
            session |-> IF closureSid = NULL THEN resp.session_id ELSE "keep"]
      [] resp.status = "multiple" ->
           [threw |-> FALSE,
            newResults |-> [k \in 1..Len(resp.items) |->
                               resultEntry(id0 + k - 1, q, resp.session_id, k,
                                           resp.items[k])],
            session |-> IF resp.session_id # NULL /\ closureSid = NULL
                        THEN resp.session_id ELSE "keep"]
      [] OTHER ->
           [threw |-> TRUE, newResults |-> <<>>, session |-> "keep"]

\* ------------------------------------------------------------ run records
isUpload(kind) == kind \in {"upload", "uploadBatch"}
isBatched(kind) == kind \in {"uploadBatch", "pasteBatch"}

\* the items of a run, each with its place in the queue
tagged(items) == [k \in 1..Len(items) |-> [ix |-> k, name |-> items[k]]]

\* the requests one chunk makes: one per file, or one for the joined essays
\* (`Batch ${batchIndex + 1}`, 'Pasted essay')
requestsOf(kind, batch, batchIndex) ==
    IF isUpload(kind) THEN batch
    ELSE << [ix |-> batchIndex + 1, name |-> batch] >>

\* ---------------------------------------------------------------- rubric
\* the presets of presetRubrics and their `content`
Presets == {"p1"}
presetContent(id) == IF id = "p1" THEN "c1" ELSE ""

\* what is typed into the rubric textarea, and `text` of the answer of
\* /upload-rubric-file/
RubricInputs == {"", " ", "t1", " t1 "}
RubricFiles == {"f1"}
extractedText == "u1"

\* rubricText.trim()
rubricTrim(t) == CASE t = " " -> "" [] t = " t1 " -> "t1" [] OTHER -> t

\* the rubric state of a render, as the functions of that render read it
rubricSelection ==
    [isRubricLocked |-> isRubricLocked, lockedRubricText |-> lockedRubricText,
     selectedPresetRubric |-> selectedPresetRubric, rubricFile |-> rubricFile,
     rubricText |-> rubricText, textAtLock |-> textAtLock]

noRubricField == [rubric_text |-> NULL, rubric_file |-> NULL]

\* faulty variant: the extracted text goes out along with the file
mutRubricFields(sel) ==
    CASE sel.isRubricLocked /\ sel.lockedRubricText # "" ->
           [noRubricField EXCEPT !.rubric_text = sel.lockedRubricText]
      [] sel.selectedPresetRubric # "" ->
           [noRubricField EXCEPT !.rubric_text = presetContent(sel.selectedPresetRubric)]
      [] sel.rubricFile # NULL ->
           [rubric_text |-> sel.rubricText, rubric_file |-> sel.rubricFile]
      [] rubricTrim(sel.rubricText) # "" ->
           [noRubricField EXCEPT !.rubric_text = rubricTrim(sel.rubricText)]
      [] OTHER -> noRubricField

\* the rubric fields processFile and processEssayBatch append to the form:
\* `if (isRubricLocked && lockedRubricText) ... else if (selectedPresetRubric)
\* ... else if (rubricFile) ... else if (rubricText && rubricText.trim())`
rubricFields(sel) ==
    IF sel.isRubricLocked /\ sel.lockedRubricText # ""
    THEN [noRubricField EXCEPT !.rubric_text = sel.lockedRubricText]
    ELSE IF sel.selectedPresetRubric # ""
    THEN IF sel.selectedPresetRubric \in Presets
         THEN [noRubricField EXCEPT
                  !.rubric_text = presetContent(sel.selectedPresetRubric)]
         ELSE noRubricField
    ELSE IF sel.rubricFile # NULL
    THEN [noRubricField EXCEPT !.rubric_file = sel.rubricFile]
    ELSE IF sel.rubricText # "" /\ rubricTrim(sel.rubricText) # ""
    THEN [noRubricField EXCEPT !.rubric_text = rubricTrim(sel.rubricText)]
    ELSE noRubricField

\* a run reads the rubric state of the render that started it (rubric), and
\* all its requests carry the fields made of it (form)
newRun(kind, queue, closureSid) ==
    [kind |-> kind, queue |-> queue, sessionId |-> closureSid,
     rubric |-> rubricSelection, form |-> rubricFields(rubricSelection),
     totalBatches |-> IF isBatched(kind) THEN totalBatchesOf(Len(queue)) ELSE 1,
     batchIndex |-> 0, currentBatch |-> <<>>, reqs |-> <<>>, pos |-> 0,
     pc |-> "start",
     chunks |-> <<>>, sent |-> <<>>, log |-> <<>>, delays |-> 0]

\* the end of a run that was not aborted
finishRun(run) ==
    [run |-> [run EXCEPT !.pc = "done"],
     sends |-> {},
     loading |-> IF run.kind = "paste" THEN "keep" ELSE "false",
     progress |-> IF run.kind = "paste" THEN -1 ELSE 100,
     clearText |-> ~isUpload(run.kind)]

\* faulty variant: a delay after the last chunk too
mutDelayAfterLast(batchIndex, totalBatches) == batchIndex < totalBatches

\* `if (batchIndex < totalBatches - 1)`: a delay follows the chunk
delayFollows(batchIndex, totalBatches) == batchIndex < totalBatches - 1

\* after the chunk: the inter-batch delay, or the end of the run
afterBatch(run) ==
    IF isBatched(run.kind) /\ delayFollows(run.batchIndex, run.totalBatches)
    THEN [run |-> [run EXCEPT !.pc = "delay", !.delays = @ + 1],
          sends |-> {}, loading |-> "keep", progress |-> -1, clearText |-> FALSE]
    ELSE finishRun(run)

\* the loop over the requests of the current chunk, from position run.pos on;
\* waiting: requests of this run are still in flight
continueBatch(run, waiting) ==
    LET sends == nextSends(run.reqs, run.pos)
    IN  IF sends # {}
        THEN [run |-> [run EXCEPT !.pos = MaxOf(sends), !.pc = "fetch",
                          !.sent = @ \o [k \in 1..Cardinality(sends) |->
                                            run.reqs[run.pos + k].ix]],
              sends |-> {run.reqs[k].ix : k \in sends},
              loading |-> IF isUpload(run.kind) THEN "true" ELSE "keep",
              progress |-> IF run.kind = "upload"
                           THEN RoundPct(MaxOf(sends) - 1, Len(run.queue))
                           ELSE -1,
              clearText |-> FALSE]
        ELSE IF waiting
             THEN [run |-> run, sends |-> {}, loading |-> "keep",
                   progress |-> -1, clearText |-> FALSE]
             ELSE afterBatch(run)

\* the head of the batch loop: the chunk is cut out of the queue and its first
\* request goes out
startBatch(run, batchIndex) ==
    LET batch == IF isBatched(run.kind) THEN currentBatchOf(run.queue, batchIndex)
                 ELSE run.queue
        r1 == [run EXCEPT !.batchIndex = batchIndex, !.currentBatch = batch,
                          !.reqs = requestsOf(run.kind, batch, batchIndex),
                          !.pos = 0,
                          !.chunks = Append(@, [k \in 1..Len(batch) |-> batch[k].ix])]
        c == continueBatch(r1, FALSE)
    IN  [c EXCEPT !.progress = IF isBatched(run.kind) /\ c.run.pc = "fetch"
                               THEN RoundPct(batchIndex, run.totalBatches)
                               ELSE c.progress]

\* ---------------------------------------------------------------- actions
Requests(r, ixs) == {[run |-> r, ix |-> i] : i \in ixs}

setLoading(c) == IF c.loading = "keep" THEN isLoading ELSE c.loading = "true"
setProgress(c) == IF c.progress = -1 THEN batchProgress ELSE c.progress

\* the Evaluate button: disabled={isLoading || (activeTab === 'upload' &&
\* !files.length) || (activeTab === 'paste' && !essayText.trim())}
evaluateEnabled(tab) ==
    /\ ~isLoading
    /\ ~(tab = "upload" /\ Len(files) = 0)
    /\ ~(tab = "paste" /\ ~HasContent(essayText))

\* the kind of run handleSubmit starts
runKind(tab) ==
    IF tab = "upload"
    THEN IF Len(files) > BatchThreshold THEN "uploadBatch" ELSE "upload"
    ELSE IF pastedEssays(essayText) # <<>> THEN "pasteBatch" ELSE "paste"

\* the checks of handleSubmit (the key, the queue on the upload tab, the
\* text on the paste tab), each a throw before setResults([])
preconditionFails(tab) ==
    \/ ~isApiKeyVerified
    \/ tab = "upload" /\ Len(files) = 0
    \/ tab = "paste" /\ ~HasContent(essayText)

\* faulty variant: the checks come after setResults([]) and setEvaluations([])
mutListAfterReject(list) == <<>>

\* a list of the component after a check of handleSubmit has ended the call:
\* the throw, or the return, comes before the list is reset
listAfterReject(list) == list

\* handleSubmit on a tab where one of its checks fails: the throw and the
\* catch of handleSubmit
handleSubmitRejected(tab) ==
    /\ ~isLoading
    /\ preconditionFails(tab)
    /\ extras > 0
    /\ extras' = extras - 1
    /\ rejections' = rejections + 1
    /\ activeTab' = tab
    /\ error' = "precondition"
    /\ batchProgress' = 0
    /\ isLoading' = FALSE
    /\ results' = listAfterReject(results)
    /\ evaluations' = listAfterReject(evaluations)
    /\ UNCHANGED << files, essayText, isApiKeyVerified, sessionId, runs,
                    inflight, downloads, nextId, removes >>
    /\ UNCHANGED << segVars, rubricVars, dlVars, dlLog, saveVars, zipVars >>

\* handleSubmit up to the await of its first fetch
handleSubmit(tab) ==
    /\ evaluateEnabled(tab)
    /\ isApiKeyVerified
    /\ Len(runs) = 0 \/ extras > 0
    /\ extras' = IF Len(runs) = 0 THEN extras ELSE extras - 1
    /\ LET kind == runKind(tab)
           queue == CASE isUpload(kind) -> tagged(files)
                      [] kind = "pasteBatch" -> tagged(pastedEssays(essayText))
                      [] OTHER -> tagged(<< essayText >>)
           c == startBatch(newRun(kind, queue, sessionId), 0)
       IN  /\ runs' = Append(runs, c.run)
           /\ inflight' = inflight \cup Requests(Len(runs) + 1, c.sends)
           /\ isLoading' = TRUE
           /\ batchProgress' = 0
    /\ activeTab' = tab
    /\ error' = "none"
    /\ results' = <<>>
    /\ evaluations' = <<>>
    /\ sessionId' = NULL
    /\ UNCHANGED << files, essayText, isApiKeyVerified, downloads, nextId, removes >>
    /\ UNCHANGED << segVars, rubricVars, dlVars, dlLog, saveVars, rejections, zipVars >>

\* the answer to request q arrives: the rest of processFile /
\* processEssayBatch, then the loop up to its next await
Respond(q, resp) ==
    /\ q \in inflight
    /\ resp = Nominal \/ extras > 0
    /\ extras' = IF resp = Nominal THEN extras ELSE extras - 1
    /\ LET r == q.run
           h == handleResponse(runs[r].sessionId, q, resp, nextId)
           rest == inflight \ {q}
           run1 == [runs[r] EXCEPT !.log = Append(@,
                       [ix |-> q.ix, status |-> resp.status,
                        session_id |-> resp.session_id, items |-> resp.items,
                        threw |-> h.threw, n |-> Len(h.newResults)])]
       IN  /\ results' = appendResults(results, h.newResults)
           /\ evaluations' = evaluations \o
                  [k \in 1..Len(h.newResults) |->
                      [run |-> q.run, ix |-> q.ix, part |-> h.newResults[k].part]]
           /\ nextId' = nextId + Len(h.newResults)
           /\ sessionId' = IF h.session = "keep" THEN sessionId ELSE h.session
           /\ IF h.threw /\ failureAborts(run1.kind)
              THEN /\ runs' = [runs EXCEPT ![r] = [run1 EXCEPT !.pc = "aborted"]]
                   /\ inflight' = rest
                   /\ error' = "run"
                   /\ isLoading' = FALSE
                   /\ UNCHANGED << batchProgress, essayText >>
              ELSE LET c == continueBatch(run1, \E o \in rest : o.run = r)
                   IN  /\ runs' = [runs EXCEPT ![r] = c.run]
                       /\ inflight' = rest \cup Requests(r, c.sends)
                       /\ error' = IF h.threw THEN "item" ELSE error
                       /\ isLoading' = setLoading(c)
                       /\ batchProgress' = setProgress(c)
                       /\ essayText' = IF c.clearText THEN <<"">> ELSE essayText
    /\ UNCHANGED << files, activeTab, isApiKeyVerified, downloads, removes >>
    /\ UNCHANGED << segVars, rubricVars, dlVars, dlLog, saveVars, rejections, zipVars >>

\* the timer of the inter-batch delay fires: the next turn of the batch loop
DelayElapsed(r) ==
    /\ r \in 1..Len(runs)
    /\ runs[r].pc = "delay"
    /\ LET c == startBatch(runs[r], runs[r].batchIndex + 1)
       IN  /\ runs' = [runs EXCEPT ![r] = c.run]
           /\ inflight' = inflight \cup Requests(r, c.sends)
           /\ isLoading' = setLoading(c)
           /\ batchProgress' = setProgress(c)
    /\ UNCHANGED << files, essayText, activeTab, isApiKeyVerified, results,
                    evaluations, sessionId, error, downloads, nextId, removes, extras >>
    /\ UNCHANGED << segVars, rubricVars, dlVars, dlLog, saveVars, rejections, zipVars >>

\* the Remove button of a result, or a call with an id that is gone
handleRemoveResult(id) ==
    /\ extras > 0
    /\ extras' = extras - 1
    /\ removes' = removes + 1
    /\ results' = removeResult(results, id)
    /\ UNCHANGED << files, essayText, activeTab, isApiKeyVerified, evaluations,
                    sessionId, isLoading, error, batchProgress, runs, inflight,
                    downloads, nextId >>
    /\ UNCHANGED << segVars, rubricVars, dlVars, dlLog, saveVars, rejections, zipVars >>

\* the Download button of a shown result, up to the await of its fetch
handleDownload(k) ==
    /\ k \in 1..Len(results)
    /\ extras > 0
    /\ extras' = extras - 1
    /\ IF results[k].sessionId = NULL
       THEN /\ error' = "download"
            /\ dlLog' = Append(dlLog, "refused")
            /\ UNCHANGED << isLoading, downloads >>
       ELSE /\ error' = "none"
            /\ isLoading' = TRUE
            /\ downloads' = downloads + 1
            /\ dlLog' = Append(dlLog, "started")
    /\ UNCHANGED << files, essayText, activeTab, isApiKeyVerified, results,
                    evaluations, sessionId, batchProgress, runs, inflight,
                    nextId, removes >>
    /\ UNCHANGED << segVars, rubricVars, dlVars, saveVars, rejections, zipVars >>

\* faulty variant: no catch, the failure of a download leaves no message
mutErrorAfterDownload(ok, err) == err

\* `catch (err) { setError(err.message || ...) }` of handleDownload: the
\* message after the answer to a download
errorAfterDownload(ok, err) == IF ok THEN err ELSE "download"

\* the answer to a download arrives: the save or the catch, then the finally
DownloadDone(ok) ==
    /\ downloads > 0
    /\ downloads' = downloads - 1
    /\ error' = errorAfterDownload(ok, error)
    /\ isLoading' = FALSE
    /\ dlLog' = Append(dlLog, IF ok THEN "saved" ELSE "failed")
    /\ UNCHANGED << files, essayText, activeTab, isApiKeyVerified, results,
                    evaluations, sessionId, batchProgress, runs, inflight,
                    nextId, removes, extras >>
    /\ UNCHANGED << segVars, rubricVars, dlVars, saveVars, rejections, zipVars >>

\* the Download All button (shown above one result, disabled while loading)
\* up to the await of its fetch: the body of /generate-all-zip/ is made of
\* `sessionId` and `evaluations`
handleDownloadAllZip ==
    /\ Len(results) > 1
    /\ ~isLoading
    /\ extras > 0
    /\ extras' = extras - 1
    /\ IF Len(evaluations) = 0
       THEN /\ error' = "zip"
            /\ UNCHANGED << isLoading, zipVars >>
       ELSE /\ isLoading' = TRUE
            /\ zips' = zips + 1
            /\ zipLog' = Append(zipLog, [session_id |-> sessionId,
                                         evaluations |-> evaluations,
                                         shown |-> results])
            /\ UNCHANGED error
    /\ UNCHANGED << files, essayText, activeTab, isApiKeyVerified, results,
                    evaluations, sessionId, batchProgress, runs, inflight,
                    downloads, nextId, removes >>
    /\ UNCHANGED << segVars, rubricVars, dlVars, dlLog, saveVars, rejections >>

\* the answer to /generate-all-zip/ arrives: the save or the catch, then the
\* finally
ZipDone(ok) ==
    /\ zips > 0
    /\ zips' = zips - 1
    /\ error' = IF ok THEN error ELSE "zip"
    /\ isLoading' = FALSE
    /\ UNCHANGED << files, essayText, activeTab, isApiKeyVerified, results,
                    evaluations, sessionId, batchProgress, runs, inflight,
                    downloads, nextId, removes, extras, zipLog >>
    /\ UNCHANGED << segVars, rubricVars, dlVars, dlLog, saveVars, rejections >>

\* handleVerifyApiKey with a key the service accepts
handleVerifyApiKey ==
    /\ ~isApiKeyVerified
    /\ isApiKeyVerified' = TRUE
    /\ error' = "none"
    /\ UNCHANGED << files, essayText, activeTab, results, evaluations,
                    sessionId, isLoading, batchProgress, runs, inflight,
                    downloads, nextId, removes, extras >>
    /\ UNCHANGED << segVars, rubricVars, dlVars, dlLog, saveVars, rejections, zipVars >>

\* the preset <select> changes (disabled while locked, and the handler
\* checks the lock itself)
handlePresetRubricChange(selectedId) ==
    /\ extras > 0
    /\ extras' = extras - 1
    /\ IF ~isRubricLocked
       THEN /\ selectedPresetRubric' = selectedId
            /\ IF selectedId # ""
               THEN IF selectedId \in Presets
                    THEN /\ rubricText' = presetContent(selectedId)
                         /\ rubricFile' = NULL
                    ELSE UNCHANGED << rubricText, rubricFile >>
               ELSE /\ rubricText' = ""
                    /\ UNCHANGED rubricFile
       ELSE UNCHANGED << selectedPresetRubric, rubricText, rubricFile >>
    /\ UNCHANGED << isRubricLocked, lockedRubricText, rubricUploads, textAtLock >>
    /\ UNCHANGED << files, essayText, activeTab, isApiKeyVerified, results,
                    evaluations, sessionId, isLoading, error, batchProgress,
                    runs, inflight, downloads, nextId, removes >>
    /\ UNCHANGED << segVars, dlVars, dlLog, saveVars, rejections, zipVars >>

\* onChange of the rubric textarea
handleRubricTextChange(value) ==
    /\ extras > 0
    /\ extras' = extras - 1
    /\ IF ~isRubricLocked
       THEN /\ rubricText' = value
            /\ selectedPresetRubric' = ""
            /\ rubricFile' = NULL
       ELSE UNCHANGED << selectedPresetRubric, rubricText, rubricFile >>
    /\ UNCHANGED << isRubricLocked, lockedRubricText, rubricUploads, textAtLock >>
    /\ UNCHANGED << files, essayText, activeTab, isApiKeyVerified, results,
                    evaluations, sessionId, isLoading, error, batchProgress,
                    runs, inflight, downloads, nextId, removes >>
    /\ UNCHANGED << segVars, dlVars, dlLog, saveVars, rejections, zipVars >>

\* the Clear button, shown when `rubricText && !isRubricLocked`
clearRubric ==
    /\ extras > 0
    /\ extras' = extras - 1
    /\ rubricText # ""
    /\ ~isRubricLocked
    /\ rubricText' = ""
    /\ rubricFile' = NULL
    /\ selectedPresetRubric' = ""
    /\ UNCHANGED << isRubricLocked, lockedRubricText, rubricUploads, textAtLock >>
    /\ UNCHANGED << files, essayText, activeTab, isApiKeyVerified, results,
                    evaluations, sessionId, isLoading, error, batchProgress,
                    runs, inflight, downloads, nextId, removes >>
    /\ UNCHANGED << segVars, dlVars, dlLog, saveVars, rejections, zipVars >>

\* handleRubricUpload with a PDF or TXT file that is not empty, up to the
\* await of its fetch
handleRubricUpload(file) ==
    /\ extras > 0
    /\ extras' = extras - 1
    /\ IF ~isRubricLocked
       THEN /\ rubricFile' = file
            /\ selectedPresetRubric' = ""
            /\ rubricText' = ""
            /\ rubricUploads' = rubricUploads + 1
       ELSE UNCHANGED << rubricFile, selectedPresetRubric, rubricText, rubricUploads >>
    /\ UNCHANGED << isRubricLocked, lockedRubricText, textAtLock >>
    /\ UNCHANGED << files, essayText, activeTab, isApiKeyVerified, results,
                    evaluations, sessionId, isLoading, error, batchProgress,
                    runs, inflight, downloads, nextId, removes >>
    /\ UNCHANGED << segVars, dlVars, dlLog, saveVars, rejections, zipVars >>

\* the answer of /upload-rubric-file/ arrives: setRubricText(data.text) or
\* the catch; then the effect on [isRubricLocked, rubricText]
RubricUploadDone(ok) ==
    /\ rubricUploads > 0
    /\ rubricUploads' = rubricUploads - 1
    /\ IF ok
       THEN /\ rubricText' = extractedText
            /\ lockedRubricText' = IF isRubricLocked THEN extractedText
                                   ELSE lockedRubricText
            /\ UNCHANGED error
       ELSE /\ error' = "rubric"
            /\ UNCHANGED << rubricText, lockedRubricText >>
    /\ UNCHANGED << rubricFile, selectedPresetRubric, isRubricLocked, textAtLock >>
    /\ UNCHANGED << files, essayText, activeTab, isApiKeyVerified, results,
                    evaluations, sessionId, isLoading, batchProgress,
                    runs, inflight, downloads, nextId, removes, extras >>
    /\ UNCHANGED << segVars, dlVars, dlLog, saveVars, rejections, zipVars >>

\* the lock button: setIsRubricLocked(!isRubricLocked), then the effect on
\* [isRubricLocked, rubricText]
toggleRubricLock ==
    /\ extras > 0
    /\ extras' = extras - 1
    /\ isRubricLocked' = ~isRubricLocked
    /\ IF ~isRubricLocked
       THEN /\ lockedRubricText' = rubricText
            /\ textAtLock' = rubricText
       ELSE UNCHANGED << lockedRubricText, textAtLock >>
    /\ UNCHANGED << rubricText, rubricFile, selectedPresetRubric, rubricUploads >>
    /\ UNCHANGED << files, essayText, activeTab, isApiKeyVerified, results,
                    evaluations, sessionId, isLoading, error, batchProgress,
                    runs, inflight, downloads, nextId, removes >>
    /\ UNCHANGED << segVars, dlVars, dlLog, saveVars, rejections, zipVars >>

\* ------------------------------------------------------- the file queue
\* the essay files a user can pick: a text file, a PDF, and a PDF for which
\* the browser knows no MIME type (File.type is then the empty string)
TxtFile == [ext |-> "txt", type |-> "text/plain"]
PdfFile == [ext |-> "pdf", type |-> "application/pdf"]
BarePdfFile == [ext |-> "pdf", type |-> ""]

\* what one drop or one file dialog hands over (files that are not empty)
Drops ==
    { <<TxtFile>>, <<PdfFile>>, <<BarePdfFile>>, <<TxtFile, TxtFile>>,
      <<TxtFile, PdfFile>>, <<PdfFile, PdfFile>>, <<BarePdfFile, BarePdfFile>> }

\* f.type === 'application/pdf'
isPdfType(f) == f.type = "application/pdf"

\* FileUploadCard.addFiles and handleDrop
addFiles(newFiles) ==
    /\ extras > 0
    /\ extras' = extras - 1
    /\ files' = IF \E k \in 1..Len(newFiles) : isPdfType(newFiles[k])
                THEN << newFiles[1] >>
                ELSE IF Len(files) < MAX_FILES
                THEN LET availableSlots == MAX_FILES - Len(files)
                     IN  files \o Slice(newFiles, 0, Min(availableSlots, Len(newFiles)))
                ELSE files
    /\ UNCHANGED << essayText, activeTab, isApiKeyVerified, results,
                    evaluations, sessionId, isLoading, error, batchProgress,
                    runs, inflight, downloads, nextId, removes >>
    /\ UNCHANGED << segVars, rubricVars, dlVars, dlLog, saveVars, rejections, zipVars >>

\* FileUploadCard.removeFile
removeFile(index) ==
    /\ index \in 1..Len(files)
    /\ files' = [k \in 1..(Len(files) - 1) |->
                    IF k < index THEN files[k] ELSE files[k + 1]]
    /\ UNCHANGED << essayText, activeTab, isApiKeyVerified, results,
                    evaluations, sessionId, isLoading, error, batchProgress,
                    runs, inflight, downloads, nextId, removes, extras >>
    /\ UNCHANGED << segVars, rubricVars, dlVars, dlLog, saveVars, rejections, zipVars >>

\* ------------------------------------- the component of unnamed/part_005
\* f.type === 'application/pdf' || f.name.toLowerCase().endsWith('.pdf')
isPdfFile(f) == f.type = "application/pdf" \/ f.ext = "pdf"

\* the updater of setFiles in FileUploadCard.handleFiles
keepOnePdf(prevFiles, validFiles) ==
    LET allFiles == prevFiles \o validFiles
        pdfFiles == SelectSeq(allFiles, isPdfFile)
        nonPdfs == SelectSeq(allFiles, LAMBDA f : ~isPdfFile(f))
        kept == IF Len(pdfFiles) > 1 THEN Append(nonPdfs, pdfFiles[1])
                ELSE allFiles
    IN  Slice(kept, 0, Min(Len(kept), MAX_FILES))

\* FileUploadCard.handleFiles with files that pass validateFile
handleFiles(newFiles) ==
    /\ extras > 0
    /\ extras' = extras - 1
    /\ files' = keepOnePdf(files, newFiles)
    /\ UNCHANGED << essayText, activeTab, isApiKeyVerified, results,
                    evaluations, sessionId, isLoading, error, batchProgress,
                    runs, inflight, downloads, nextId, removes >>
    /\ UNCHANGED << segVars, rubricVars, dlVars, dlLog, saveVars, rejections, zipVars >>

\* what the service answers to the one request of a run of this component
ResponsesP5 ==
    { Resp("single", "s1", <<>>),
      Resp("multiple", "s1", <<"ok", "flagged", "ok">>),
      Resp("multiple", "s2", <<"ok">>),
      Resp("empty", NULL, <<>>),
      Resp("http", NULL, <<>>),
      Resp("net", NULL, <<>>) }

\* the positions of the queue that hold a PDF
pdfPositions(queue) == {k \in 1..Len(queue) : isPdfFile(queue[k].name)}

\* the item handleSubmit hands to processItem: the PDF if there is one, else
\* the first file; the pasted text on the other tabs
itemToProcess(tab, queue) ==
    IF tab = "upload" /\ pdfPositions(queue) # {}
    THEN CHOOSE k \in pdfPositions(queue) : \A j \in pdfPositions(queue) : k <= j
    ELSE 1

newRunP5(tab, queue, closureSid) ==
    [kind |-> IF tab = "upload" THEN "upload" ELSE "paste", queue |-> queue,
     sessionId |-> closureSid, pc |-> "start", sent |-> <<>>, log |-> <<>>]

\* handleSubmit of this component up to the await of its fetch, or through
\* its throw, catch and finally
handleSubmitP5(tab) ==
    /\ evaluateEnabled(tab)
    /\ Len(runs) = 0 \/ extras > 0
    /\ extras' = IF Len(runs) = 0 THEN extras ELSE extras - 1
    /\ LET queue == IF tab = "upload" THEN tagged(files) ELSE tagged(<< essayText >>)
           run == newRunP5(tab, queue, sessionId)
           ix == itemToProcess(tab, queue)
       IN  IF tab = "upload" /\ Cardinality(pdfPositions(queue)) > 1
           THEN /\ runs' = Append(runs, [run EXCEPT !.pc = "aborted"])
                /\ error' = "precondition"
                /\ isLoading' = FALSE
                /\ UNCHANGED inflight
           ELSE /\ runs' = Append(runs, [run EXCEPT !.pc = "fetch", !.sent = << ix >>])
                /\ inflight' = inflight \cup Requests(Len(runs) + 1, {ix})
                /\ error' = "none"
                /\ isLoading' = TRUE
    /\ activeTab' = tab
    /\ results' = <<>>
    /\ sessionId' = NULL
    /\ UNCHANGED << files, essayText, isApiKeyVerified, evaluations,
                    batchProgress, downloads, nextId, removes >>
    /\ UNCHANGED << segVars, rubricVars, dlVars, dlLog, saveVars, rejections, zipVars >>

\* the two checks at the head of handleSubmit: `setError(...); return`
inputMissing(tab) ==
    \/ tab = "upload" /\ Len(files) = 0
    \/ tab = "paste" /\ ~HasContent(essayText)

\* handleSubmit on a tab whose input is missing
handleSubmitRejectedP5(tab) ==
    /\ ~isLoading
    /\ inputMissing(tab)
    /\ extras > 0
    /\ extras' = extras - 1
    /\ rejections' = rejections + 1
    /\ activeTab' = tab
    /\ error' = "precondition"
    /\ results' = listAfterReject(results)
    /\ UNCHANGED << files, essayText, isApiKeyVerified, evaluations, sessionId,
                    isLoading, batchProgress, runs, inflight, downloads,
                    nextId, removes >>
    /\ UNCHANGED << segVars, rubricVars, dlVars, dlLog, saveVars, zipVars >>

\* the entry processItem makes of item k of `data.results`, and the entry its
\* catch makes
entryP5(id, q, sid, part, item) ==
    [id |-> id, filename |-> [of |-> q.ix, part |-> part], sessionId |-> sid,
     error |-> IF item = "ok" THEN NULL ELSE item,
     run |-> q.run, ix |-> q.ix, part |-> part, item |-> item]

\* processItem from the answer on: the entries it appends and the message
\* it sets ("keep": none)
normalizeP5(closureSid, q, resp, id0) ==
    CASE resp.status \in {"http", "net"} ->
           [newResults |-> << entryP5(id0, q, closureSid, 0, "failed") >>,
            error |-> "item", setsSession |-> FALSE]
      [] resp.status = "empty" ->
           [newResults |-> <<>>, error |-> "item", setsSession |-> TRUE]
      [] resp.status = "multiple" ->
           [newResults |-> [k \in 1..Len(resp.items) |->
                               entryP5(id0 + k - 1, q, resp.session_id, k,
                                       resp.items[k])],
            error |-> "keep", setsSession |-> TRUE]
      [] OTHER ->
           [newResults |-> <<>>, error |-> "format", setsSession |-> TRUE]

\* the answer to the request of a run arrives: the rest of processItem, then
\* the finally of handleSubmit
processItemDone(q, resp) ==
    /\ q \in inflight
    /\ LET r == q.run
           h == normalizeP5(runs[r].sessionId, q, resp, nextId)
       IN  /\ results' = appendResults(results, h.newResults)
           /\ nextId' = nextId + Len(h.newResults)
           /\ sessionId' = IF h.setsSession /\ runs[r].sessionId = NULL
                           THEN resp.session_id ELSE sessionId
           /\ error' = IF h.error = "keep" THEN error ELSE h.error
           /\ runs' = [runs EXCEPT ![r] = [@ EXCEPT !.pc = "done",
                          !.log = Append(@,
                             [ix |-> q.ix, status |-> resp.status,
                              session_id |-> resp.session_id,
                              items |-> resp.items, threw |-> FALSE,
                              n |-> Len(h.newResults)])]]
    /\ inflight' = inflight \ {q}
    /\ isLoading' = FALSE
    /\ UNCHANGED << files, essayText, activeTab, isApiKeyVerified, evaluations,
                    batchProgress, downloads, removes, extras >>
    /\ UNCHANGED << segVars, rubricVars, dlVars, dlLog, saveVars, rejections, zipVars >>

\* handleRemoveResult of this component
handleRemoveResultP5(idToRemove) ==
    /\ extras > 0
    /\ extras' = extras - 1
    /\ results' = removeResult(results, idToRemove)
    /\ UNCHANGED << files, essayText, activeTab, isApiKeyVerified, evaluations,
                    sessionId, isLoading, error, batchProgress, runs, inflight,
                    downloads, nextId, removes >>
    /\ UNCHANGED << segVars, rubricVars, dlVars, dlLog, saveVars, rejections, zipVars >>

\* faulty variant: no delay, the downloads start together
mutStaggerDelay(index) == 0 * StaggerMs

\* `index * 200`: the delay of the download of validResults[index]
staggerDelay(index) == index * StaggerMs

\* results.filter(r => !r.error && r.sessionId && r.filename); every entry
\* of the model has a filename
validResultsOf(rs) == SelectSeq(rs, LAMBDA e : e.error = NULL /\ e.sessionId # NULL)

\* the Download All button (shown with more than one result without an
\* error, disabled while isLoading): one timer per valid result
handleDownloadAll ==
    /\ Cardinality({k \in 1..Len(results) : results[k].error = NULL}) > 1
    /\ ~isLoading
    /\ extras > 0
    /\ extras' = extras - 1
    /\ LET validResults == validResultsOf(results)
           act == Len(downloadAlls) + 1
       IN  timers' = timers \cup
               { [act |-> act, index |-> k - 1, result |-> validResults[k],
                  due |-> clock + staggerDelay(k - 1)] : k \in 1..Len(validResults) }
    /\ downloadAlls' = Append(downloadAlls, [at |-> clock, results |-> results])
    /\ UNCHANGED << clock, started >>
    /\ UNCHANGED << files, essayText, activeTab, isApiKeyVerified, results,
                    evaluations, sessionId, isLoading, error, batchProgress,
                    runs, inflight, downloads, nextId, removes >>
    /\ UNCHANGED << segVars, rubricVars, dlLog, saveVars, rejections, zipVars >>

\* the timers that are due, and the one the event loop runs first
dueTimers == {t \in timers : t.due <= clock}
firstDue ==
    CHOOSE t \in dueTimers : \A u \in dueTimers :
        \/ t.due < u.due
        \/ t.due = u.due /\ t.act < u.act
        \/ t.due = u.due /\ t.act = u.act /\ t.index <= u.index

\* a timer of Download All fires: handleDownload(result) up to the await of
\* its fetch
handleDownloadTimer ==
    /\ dueTimers # {}
    /\ LET t == firstDue
       IN  /\ timers' = timers \ {t}
           /\ IF t.result.sessionId = NULL
              THEN /\ error' = "download"
                   /\ dlLog' = Append(dlLog, "refused")
                   /\ UNCHANGED << isLoading, downloads, started >>
              ELSE /\ isLoading' = TRUE
                   /\ downloads' = downloads + 1
                   /\ dlLog' = Append(dlLog, "started")
                   /\ started' = Append(started,
                          [act |-> t.act, id |-> t.result.id, at |-> clock])
                   /\ UNCHANGED error
    /\ UNCHANGED << clock, downloadAlls >>
    /\ UNCHANGED << files, essayText, activeTab, isApiKeyVerified, results,
                    evaluations, sessionId, batchProgress, runs, inflight,
                    nextId, removes, extras >>
    /\ UNCHANGED << segVars, rubricVars, saveVars, rejections, zipVars >>

\* time passes while timers wait and none is due
Tick ==
    /\ timers # {}
    /\ dueTimers = {}
    /\ clock' = clock + TickMs
    /\ UNCHANGED << timers, downloadAlls, started >>
    /\ UNCHANGED << files, essayText, activeTab, isApiKeyVerified, results,
                    evaluations, sessionId, isLoading, error, batchProgress,
                    runs, inflight, downloads, nextId, removes, extras >>
    /\ UNCHANGED << segVars, rubricVars, dlLog, saveVars, rejections, zipVars >>

\* the Download button of a result without an error, up to the await of
\* the fetch of handleDownload
handleDownloadP5(k) ==
    /\ k \in 1..Len(results)
    /\ results[k].error = NULL
    /\ extras > 0
    /\ extras' = extras - 1
    /\ IF results[k].sessionId = NULL
       THEN /\ error' = "download"
            /\ dlLog' = Append(dlLog, "refused")
            /\ UNCHANGED << isLoading, downloads >>
       ELSE /\ isLoading' = TRUE
            /\ downloads' = downloads + 1
            /\ dlLog' = Append(dlLog, "started")
            /\ UNCHANGED error
    /\ UNCHANGED << files, essayText, activeTab, isApiKeyVerified, results,
                    evaluations, sessionId, batchProgress, runs, inflight,
                    nextId, removes >>
    /\ UNCHANGED << segVars, rubricVars, dlVars, saveVars, rejections, zipVars >>

\* the answer to a download arrives: the save or the catch, then the finally
downloadDoneP5(ok) ==
    /\ downloads > 0
    /\ downloads' = downloads - 1
    /\ error' = errorAfterDownload(ok, error)
    /\ isLoading' = FALSE
    /\ dlLog' = Append(dlLog, IF ok THEN "saved" ELSE "failed")
    /\ UNCHANGED << files, essayText, activeTab, isApiKeyVerified, results,
                    evaluations, sessionId, batchProgress, runs, inflight,
                    nextId, removes, extras >>
    /\ UNCHANGED << segVars, rubricVars, dlVars, saveVars, rejections, zipVars >>

Tabs == {"upload", "paste", "rubric"}

\* ---------------------------------------------------------- specifications
InitCommon ==
    /\ activeTab = "upload"
    /\ results = <<>>
    /\ evaluations = <<>>
    /\ sessionId = NULL
    /\ isLoading = FALSE
    /\ error = "none"
    /\ batchProgress = 0
    /\ runs = <<>>
    /\ inflight = {}
    /\ downloads = 0
    /\ nextId = 1
    /\ removes = 0
    /\ rejections = 0
    /\ zips = 0
    /\ zipLog = <<>>

\* splitEssaysText is not called on its own
NoSplit ==
    /\ splitInput = <<>>
    /\ splitOutput = [done |-> FALSE, essays |-> <<>>]

\* the rubric tab as it is mounted: nothing selected, unlocked
NoRubric ==
    /\ rubricText = ""
    /\ rubricFile = NULL
    /\ selectedPresetRubric = ""
    /\ isRubricLocked = FALSE
    /\ lockedRubricText = ""
    /\ rubricUploads = 0
    /\ textAtLock = ""

\* no Download All yet, and no download
NoDownloadAll ==
    /\ timers = {}
    /\ clock = 0
    /\ downloadAlls = <<>>
    /\ started = <<>>
    /\ dlLog = <<>>

\* no report is being saved
NoSave ==
    /\ filenameIn = <<>>
    /\ savedAs = [done |-> FALSE, name |-> <<>>]

\* the whole component, on short queues
Init ==
    /\ InitCommon
    /\ NoSplit
    /\ NoRubric
    /\ NoDownloadAll
    /\ NoSave
    /\ isApiKeyVerified = FALSE
    /\ \/ /\ \E n \in 1..MaxFiles : files = queueOf(n)
          /\ essayText = <<"">>
       \/ /\ files = <<>>
          /\ essayText \in PasteTexts
    /\ extras = MaxExtras

Next ==
    \/ \E tab \in Tabs : handleSubmitRejected(tab)
    \/ \E tab \in Tabs : handleSubmit(tab)
    \/ \E q \in inflight, resp \in Responses : Respond(q, resp)
    \/ \E r \in 1..Len(runs) : DelayElapsed(r)
    \/ \E id \in 1..(nextId - 1) : handleRemoveResult(id)
    \/ \E k \in 1..Len(results) : handleDownload(k)
    \/ \E ok \in BOOLEAN : DownloadDone(ok)
    \/ handleDownloadAllZip
    \/ \E ok \in BOOLEAN : ZipDone(ok)
    \/ handleVerifyApiKey

Spec == Init /\ [][Next]_vars

\* the essay tabs of the component when every awaited promise settles: a
\* request that is in flight is answered, a delay timer fires, a download is
\* answered
Answered == \E q \in inflight, resp \in Responses : Respond(q, resp)
Elapsed == \E r \in 1..Len(runs) : DelayElapsed(r)
Downloaded == \E ok \in BOOLEAN : DownloadDone(ok)

\* the upload tab and the paste tab
EssayTabs == {"upload", "paste"}

NextLive ==
    \/ \E tab \in EssayTabs : handleSubmitRejected(tab)
    \/ \E tab \in EssayTabs : handleSubmit(tab)
    \/ Answered
    \/ Elapsed
    \/ \E id \in 1..(nextId - 1) : handleRemoveResult(id)
    \/ \E k \in 1..Len(results) : handleDownload(k)
    \/ Downloaded
    \/ handleVerifyApiKey

SpecLive ==
    Init /\ [][NextLive]_vars
         /\ WF_vars(Answered) /\ WF_vars(Elapsed) /\ WF_vars(Downloaded)

\* the scheduler alone, on queues long enough to be cut into chunks
InitSched ==
    /\ InitCommon
    /\ NoSplit
    /\ NoRubric
    /\ NoDownloadAll
    /\ NoSave
    /\ isApiKeyVerified = TRUE
    /\ \/ /\ \E n \in 1..MaxQueue : files = queueOf(n)
          /\ essayText = <<"">>
       \/ /\ files = <<>>
          /\ \E n \in (BatchThreshold + 1)..MaxQueue : essayText = markedText(n)
    /\ extras = MaxExtrasSched

NextSched ==
    \/ \E tab \in Tabs : handleSubmit(tab)
    \/ \E q \in inflight, resp \in Responses : Respond(q, resp)
    \/ \E r \in 1..Len(runs) : DelayElapsed(r)

SpecSched == InitSched /\ [][NextSched]_vars

\* the rubric tab and the runs that read it, on short queues
InitRubric ==
    /\ InitCommon
    /\ NoSplit
    /\ NoRubric
    /\ NoDownloadAll
    /\ NoSave
    /\ isApiKeyVerified = TRUE
    /\ \E n \in 1..MaxFiles : files = queueOf(n)
    /\ essayText = <<"">>
    /\ extras = MaxExtrasRubric

NextRubric ==
    \/ \E id \in Presets \cup {""} : handlePresetRubricChange(id)
    \/ \E value \in RubricInputs : handleRubricTextChange(value)
    \/ clearRubric
    \/ \E file \in RubricFiles : handleRubricUpload(file)
    \/ \E ok \in BOOLEAN : RubricUploadDone(ok)
    \/ toggleRubricLock
    \/ handleSubmit("upload")
    \/ \E q \in inflight : Respond(q, Nominal)

SpecRubric == InitRubric /\ [][NextRubric]_vars

\* the upload tab from an empty queue on: files are picked and removed, and
\* runs are started
InitFiles ==
    /\ InitCommon
    /\ NoSplit
    /\ NoRubric
    /\ NoDownloadAll
    /\ NoSave
    /\ isApiKeyVerified = TRUE
    /\ files = <<>>
    /\ essayText = <<"">>
    /\ extras = MaxExtrasFiles

NextFiles ==
    \/ \E newFiles \in Drops : addFiles(newFiles)
    \/ \E index \in 1..Len(files) : removeFile(index)
    \/ handleSubmit("upload")
    \/ \E q \in inflight : Respond(q, Nominal)
    \/ \E r \in 1..Len(runs) : DelayElapsed(r)

SpecFiles == InitFiles /\ [][NextFiles]_vars

\* the component of unnamed/part_005, from an empty queue on
InitP5 ==
    /\ InitCommon
    /\ NoSplit
    /\ NoRubric
    /\ NoDownloadAll
    /\ NoSave
    /\ isApiKeyVerified = FALSE
    /\ files = <<>>
    /\ essayText \in { <<"">>, <<"b">> }
    /\ extras = MaxExtrasP5

NextP5 ==
    \/ \E newFiles \in Drops : handleFiles(newFiles)
    \/ \E index \in 1..Len(files) : removeFile(index)
    \/ \E tab \in Tabs : handleSubmitRejectedP5(tab)
    \/ \E tab \in Tabs : handleSubmitP5(tab)
    \/ \E q \in inflight, resp \in ResponsesP5 : processItemDone(q, resp)
    \/ \E id \in 1..(nextId - 1) : handleRemoveResultP5(id)
    \/ \E k \in 1..Len(results) : handleDownloadP5(k)
    \/ handleDownloadAll
    \/ handleDownloadTimer
    \/ Tick
    \/ \E ok \in BOOLEAN : downloadDoneP5(ok)

SpecP5 == InitP5 /\ [][NextP5]_vars

\* splitEssaysText as a function of its text: the lines a text is made of
Lines == {"", "SN", "S", "N", "xN", "b", "B", "---", "L"}

\* the texts of 1 to n lines
TextsUpTo(n) == UNION { [1..k -> Lines] : k \in 1..n }

InitSplit ==
    /\ InitCommon
    /\ NoRubric
    /\ NoDownloadAll
    /\ NoSave
    /\ isApiKeyVerified = TRUE
    /\ files = <<>>
    /\ essayText = <<"">>
    /\ extras = 0
    /\ \E t \in TextsUpTo(MaxLines) :
          /\ splitInput = t
          /\ splitOutput = [done |-> FALSE, essays |-> <<>>]

\* const essays = splitEssaysText(text)
CallSplit ==
    /\ ~splitOutput.done
    /\ splitOutput' = [done |-> TRUE, essays |-> splitEssaysText(splitInput)]
    /\ UNCHANGED << files, essayText, activeTab, isApiKeyVerified, results,
                    evaluations, sessionId, isLoading, error, batchProgress,
                    runs, inflight, downloads, nextId, removes, extras,
                    splitInput, rubricVars, dlVars, dlLog, saveVars, rejections, zipVars >>

NextSplit == CallSplit

SpecSplit == InitSplit /\ [][NextSplit]_vars

\* the saved name of a report as a function of its filename
NamesUpTo(n) == UNION { [1..k -> Chars] : k \in 1..n }

InitSave ==
    /\ InitCommon
    /\ NoSplit
    /\ NoRubric
    /\ NoDownloadAll
    /\ isApiKeyVerified = FALSE
    /\ files = <<>>
    /\ essayText = <<"">>
    /\ extras = 0
    /\ filenameIn \in NamesUpTo(MaxName)
    /\ savedAs = [done |-> FALSE, name |-> <<>>]

\* the save of handleDownload once the report has arrived
SaveReport ==
    /\ ~savedAs.done
    /\ savedAs' = [done |-> TRUE, name |-> sanitizeFilename(filenameIn)]
    /\ UNCHANGED << files, essayText, activeTab, isApiKeyVerified, results,
                    evaluations, sessionId, isLoading, error, batchProgress,
                    runs, inflight, downloads, nextId, removes, extras,
                    filenameIn >>
    /\ UNCHANGED << segVars, rubricVars, dlVars, dlLog, rejections, zipVars >>

NextSave == SaveReport

SpecSave == InitSave /\ [][NextSave]_vars

\* ------------------------------------------------------------- properties
RunIds == 1..Len(runs)
InflightOf(r) == {q \in inflight : q.run = r}
Latest == Len(runs)

\* the requests a finished chunk list stands for: 1, 2, ..., n in this order
Consecutive(s) == \A k \in 1..Len(s) : s[k] = k

\* C1: a batched run cuts its queue of N > 5 items into chunks of 1 to 3 items,
\* consecutive and in queue order; the chunks cut so far never skip or repeat
\* an item, and the finished run has cut T chunks with 3(T-1) < N <= 3T
\* (T = ceil(N/3)) whose sizes sum to N.
C1_Chunks ==
    \A r \in RunIds :
        LET run == runs[r]
            N == Len(run.queue)
            T == Len(run.chunks)
        IN  isBatched(run.kind) =>
              /\ N > BatchThreshold
              /\ \A c \in 1..T : Len(run.chunks[c]) \in 1..batchSize
              /\ Consecutive(Flatten(run.chunks))
              /\ Len(Flatten(run.chunks)) <= N
              /\ T = run.batchIndex + 1
              /\ run.pc = "done" =>
                    /\ batchSize * (T - 1) < N
                    /\ N <= batchSize * T
                    /\ SumSeq([c \in 1..T |-> Len(run.chunks[c])]) = N

\* a finished upload run of 7 files: chunks of 3, 3 and 1
C1_Witness ==
    \E r \in RunIds :
        /\ runs[r].kind = "uploadBatch"
        /\ runs[r].pc = "done"
        /\ Len(runs[r].queue) = 7
        /\ Len(runs[r].chunks) = 3
        /\ Len(runs[r].chunks[3]) = 1

\* C2: at most one /evaluate/ request of a run is in flight; it is the last
\* request the run sent, every earlier one has been answered (in the order
\* sent), and the entries each answer produced were appended before the next
\* request went out.
C2_OneInFlight ==
    \A r \in RunIds :
        LET run == runs[r]
            fl == InflightOf(r)
        IN  /\ Cardinality(fl) <= 1
            /\ Len(run.sent) = Len(run.log) + Cardinality(fl)
            /\ \A k \in 1..Len(run.log) : run.log[k].ix = run.sent[k]
            /\ \A q \in fl : q.ix = run.sent[Len(run.sent)]
            /\ (run.pc = "fetch") = (fl # {})
            /\ r = Latest =>
                  \A k \in 1..Len(run.log) :
                      Cardinality({j \in 1..Len(results) :
                                      /\ results[j].run = r
                                      /\ results[j].ix = run.log[k].ix})
                        = run.log[k].n

\* the first request of the second chunk is in flight, the first chunk answered
C2_Witness ==
    \E r \in RunIds :
        /\ runs[r].kind = "uploadBatch"
        /\ runs[r].batchIndex = 1
        /\ InflightOf(r) = {[run |-> r, ix |-> 4]}
        /\ Len(runs[r].log) = 3
        /\ Len(results) >= 3

\* C3: a file-upload run is never aborted by a failed dispatch (HTTP error,
\* network failure, unexpected answer): the item after a failed one is sent
\* like the item after a successful one, and the run ends only when every
\* file of the queue has been sent.
C3_UploadNeverHalts ==
    \A r \in RunIds :
        LET run == runs[r]
        IN  isUpload(run.kind) =>
              /\ run.pc # "aborted"
              /\ Consecutive(run.sent)
              /\ run.pc \in {"delay", "done"} => Len(run.sent) = Len(Flatten(run.chunks))
              /\ run.pc = "done" => Len(run.sent) = Len(run.queue)
              /\ \A k \in 1..Len(run.log) :
                    run.log[k].threw /\ k < Len(run.queue) => Len(run.sent) > k \/ run.pc = "delay"

\* a finished upload run of 7 files in which the second file of the first
\* chunk failed with an HTTP error
C3_Witness ==
    \E r \in RunIds :
        /\ runs[r].kind = "uploadBatch"
        /\ runs[r].pc = "done"
        /\ Len(runs[r].queue) = 7
        /\ runs[r].log[2].status = "http"
        /\ runs[r].log[2].threw
        /\ Len(runs[r].sent) = 7

\* C4: an HTTP error status for an item's request is turned into exactly one
\* entry of the results list, with error set and the item's own filename,
\* and no exception leaves the dispatch of the item.
C4_HttpErrorIsResult ==
    \A r \in RunIds :
        r = Latest =>
          \A k \in 1..Len(runs[r].log) :
              LET a == runs[r].log[k]
              IN  a.status = "http" =>
                    /\ ~a.threw
                    /\ Cardinality({j \in 1..Len(results) :
                          /\ results[j].run = r
                          /\ results[j].ix = a.ix
                          /\ results[j].error # NULL
                          /\ results[j].filename = [of |-> a.ix, part |-> 0]}) = 1

\* C5: a batched paste run is never aborted by a failed request: the failure
\* is recorded and the batches after it are still sent.
C5_PasteBatchNeverAborts ==
    \A r \in RunIds :
        runs[r].kind = "pasteBatch" =>
          /\ runs[r].pc # "aborted"
          /\ runs[r].pc = "done" => Len(runs[r].sent) = runs[r].totalBatches

\* the answers of the run that carried a session id and were taken as a success
Successes(run) ==
    {k \in 1..Len(run.log) : ~run.log[k].threw /\ run.log[k].session_id # NULL}

\* C6: in every run the stored session id is the session_id of the run's
\* first successful answer (none before it), whatever later answers carry.
C6_SessionIsFirst ==
    Latest > 0 =>
      LET run == runs[Latest]
          ok == Successes(run)
      IN  sessionId = IF ok = {} THEN NULL
                      ELSE run.log[CHOOSE k \in ok : \A j \in ok : k <= j].session_id

\* C7: once the session id is set, every entry of the results list carries it.
C7_ResultsCarrySession ==
    sessionId # NULL => \A j \in 1..Len(results) : results[j].sessionId = sessionId

\* the (item, part) pairs the answers of a run stand for, in the order of the
\* answers: one pair for a 'single' answer, one per essay for a 'multiple' one
RECURSIVE ExpectedKeys(_)
ExpectedKeys(log) ==
    IF log = <<>> THEN <<>>
    ELSE LET a == Head(log)
         IN  (IF a.status = "single" THEN [p \in 1..a.n |-> << a.ix, 0 >>]
              ELSE [p \in 1..a.n |-> << a.ix, p >>])
             \o ExpectedKeys(Tail(log))

\* C8: the results list is in submission order at every moment: it is exactly
\* the entries of the first answer, then those of the second, and so on (A
\* then B gives A followed by B), so the entries of an earlier item precede
\* those of a later one, and the essays of one answer keep the answer's order.
C8_SubmissionOrder ==
    /\ \A i, j \in 1..Len(results) :
          i < j /\ results[i].run = results[j].run =>
             \/ results[i].ix < results[j].ix
             \/ results[i].ix = results[j].ix /\ results[i].part < results[j].part
    /\ Latest > 0 =>
          /\ [j \in 1..Len(results) |-> << results[j].ix, results[j].part >>]
               = ExpectedKeys(runs[Latest].log)
          /\ \A j \in 1..Len(results) : results[j].run = Latest

\* entries of three different items, the second item answered with two essays
C8_Witness ==
    /\ Len(results) = 4
    /\ results[1].ix = 1
    /\ results[2].ix = 2 /\ results[2].part = 1
    /\ results[3].ix = 2 /\ results[3].part = 2
    /\ results[4].ix = 4
    /\ runs[Latest].batchIndex = 1

\* C9: handleRemoveResult(id) takes out the one entry with that id and keeps
\* the others in their order, changes nothing when no entry has the id, and a
\* second call with the same id changes nothing more.
C9_Remove ==
    [][ removes' # removes =>
          \E id \in 1..(nextId - 1) :
              LET hit == {k \in 1..Len(results) : results[k].id = id}
              IN  /\ Cardinality(hit) <= 1
                  /\ Len(results') = Len(results) - Cardinality(hit)
                  /\ \A k \in 1..Len(results') :
                        results'[k] = results[IF \E h \in hit : h <= k THEN k + 1 ELSE k]
                  /\ hit = {} => results' = results
                  /\ removeResult(results', id) = results'
      ]_vars

\* the entries the only run so far has produced
Produced(run) == SumSeq([k \in 1..Len(run.log) |-> run.log[k].n])

\* one of the three entries of the only run has been removed
C9_Witness ==
    /\ Len(runs) = 1
    /\ removes = 1
    /\ Produced(runs[1]) = 3
    /\ Len(results) = 2

\* C10: from the first dispatch of a new run on, the results list holds only
\* entries that this run produced.
C10_OnlyThisRun ==
    \A j \in 1..Len(results) : results[j].run = Latest

\* C15: a run of N items waits exactly ceil(N/3) - 1 inter-batch delays when
\* N > 5, one after each chunk but the last, and none when N <= 5; while a
\* delay is pending no request is in flight and none is issued.
C15_Delays ==
    /\ \A r \in RunIds :
          LET run == runs[r]
              N == Len(run.queue)
              T == Len(run.chunks)
          IN  /\ ~isBatched(run.kind) => N <= BatchThreshold /\ run.delays = 0
              /\ isBatched(run.kind) =>
                    /\ N > BatchThreshold
                    /\ run.delays = IF run.pc = "delay" THEN T ELSE T - 1
                    /\ run.delays <= Ceil(N, batchSize) - 1
                    /\ run.pc = "done" => run.delays = Ceil(N, batchSize) - 1
              /\ run.pc = "delay" =>
                    /\ InflightOf(r) = {}
                    /\ Len(run.sent) = Len(run.log)
                    /\ Len(run.sent) = IF isUpload(run.kind)
                                        THEN Len(Flatten(run.chunks))
                                        ELSE Len(run.chunks)
    /\ (\E r \in RunIds : runs[r].pc = "delay") => inflight = {}

\* a finished run of 7 files that waited twice, after a run of 5 files or
\* fewer that never waited
C15_Witness ==
    \E r \in RunIds :
        /\ runs[r].kind = "uploadBatch"
        /\ runs[r].pc = "done"
        /\ Len(runs[r].queue) = 7
        /\ runs[r].delays = 2

\* the entries of the results list that the answer to item ix of run r made
EntriesOf(r, ix) == SelectSeq(results, LAMBDA e : e.run = r /\ e.ix = ix)

\* C11: a 'multiple' answer with successful and flagged items gives one entry
\* per item, in the order of the answer, each with the answer's session id;
\* the entry of a flagged item has its error set, the entry of a successful
\* item has none, and all of them are in the results list.
C11_MixedMultiple ==
    Latest > 0 =>
      \A k \in 1..Len(runs[Latest].log) :
          LET a == runs[Latest].log[k]
              es == EntriesOf(Latest, a.ix)
          IN  a.status = "multiple" =>
                /\ Len(es) = Len(a.items)
                /\ \A p \in 1..Len(es) :
                      /\ es[p].part = p
                      /\ es[p].sessionId = a.session_id
                      /\ (es[p].error # NULL) = (a.items[p] = "flagged")

\* C18: for a text with a non-whitespace character splitEssaysText never
\* returns an empty list: when its rules give fewer than 2 segments it
\* returns exactly one entry, the trimmed whole text.
C18_NeverEmpty ==
    splitOutput.done /\ HasContent(splitInput) =>
        \/ Len(splitOutput.essays) >= 2
        \/ splitOutput.essays = << Trim(splitInput) >>

\* the lines of a text that start with a marker
MarkerStarts(t) == {k \in 1..Len(t) : LineInfo(t[k]).start}

\* the lines of a text that are not empty, in order
NonEmptyLines(t) == SelectSeq(t, LAMBDA l : l # "")

\* C19: for a text with at least two lines that start with a marker,
\* splitEssaysText returns at least 2 entries, each trimmed and not empty,
\* which follow the text in its order, and every entry from the second on
\* starts with a line that starts with a marker.
C19_TwoMarkers ==
    splitOutput.done /\ Cardinality(MarkerStarts(splitInput)) >= 2 =>
        LET essays == splitOutput.essays
        IN  /\ Len(essays) >= 2
            /\ \A k \in 1..Len(essays) :
                  /\ HasContent(essays[k])
                  /\ essays[k] = Trim(essays[k])
            /\ NonEmptyLines(Flatten(essays)) = NonEmptyLines(splitInput)
            /\ \A k \in 2..Len(essays) : LineInfo(essays[k][1]).start

\* the rubric text a form carries ("" when it carries none)
SentText(form) == IF form.rubric_text = NULL THEN "" ELSE form.rubric_text

\* C16: the requests of a run started while the rubric is locked carry as
\* rubric text the text that was in the rubric box when the lock was turned
\* on; nothing that happens while locked (an edit, a preset change, a file
\* selection, the late answer of a rubric upload) changes it.
C16_LockedRubric ==
    \A r \in RunIds :
        runs[r].rubric.isRubricLocked /\ runs[r].sent # <<>> =>
            SentText(runs[r].form) = runs[r].rubric.textAtLock

\* the representation the precedence file > preset > free text > none gives
ByPrecedence(sel) ==
    CASE sel.rubricFile # NULL ->
           [rubric_text |-> NULL, rubric_file |-> sel.rubricFile]
      [] sel.selectedPresetRubric # "" ->
           [rubric_text |-> presetContent(sel.selectedPresetRubric),
            rubric_file |-> NULL]
      [] rubricTrim(sel.rubricText) # "" ->
           [rubric_text |-> rubricTrim(sel.rubricText), rubric_file |-> NULL]
      [] OTHER -> [rubric_text |-> NULL, rubric_file |-> NULL]

\* C17: the requests of a run started while the rubric is not locked carry
\* exactly one rubric representation, chosen by the precedence uploaded
\* file > preset text > free text, never both rubric_file and rubric_text,
\* and no rubric field when none of the three is set.
C17_Precedence ==
    \A r \in RunIds :
        ~runs[r].rubric.isRubricLocked /\ runs[r].sent # <<>> =>
            /\ runs[r].form = ByPrecedence(runs[r].rubric)
            /\ runs[r].form.rubric_text = NULL \/ runs[r].form.rubric_file = NULL

\* an unlocked run whose render held a rubric file and its extracted text
\* has sent its two requests with the file alone
C17_Witness ==
    /\ Len(runs) = 1
    /\ ~runs[1].rubric.isRubricLocked
    /\ runs[1].pc = "done"
    /\ runs[1].rubric.rubricFile = "f1"
    /\ runs[1].rubric.rubricText = extractedText
    /\ runs[1].form = [rubric_text |-> NULL, rubric_file |-> "f1"]
    /\ Len(runs[1].sent) = 2

\* is the file a PDF: by its name, as by its MIME type
isPdf(f) == f.ext = "pdf"

\* the PDF files of the queue of a run
PdfsOf(run) == {k \in 1..Len(run.queue) : isPdf(run.queue[k].name)}

\* C13: a run whose queue holds more than one PDF file is aborted by a
\* precondition error before scheduling begins: it sends no /evaluate/
\* request and appends no result.
C13_ManyPdfsAbort ==
    \A r \in RunIds :
        Cardinality(PdfsOf(runs[r])) > 1 =>
            /\ runs[r].sent = <<>>
            /\ runs[r].log = <<>>

\* C12: both shapes of a successful answer are normalized to a list of
\* results: a 'single' answer appends exactly one result and a 'multiple'
\* answer with k items appends exactly k.
C12_BothShapes ==
    \A r \in RunIds : \A k \in 1..Len(runs[r].log) :
        LET a == runs[r].log[k]
        IN  /\ a.status = "single" /\ a.session_id # NULL => a.n = 1
            /\ a.status = "multiple" => a.n = Len(a.items)

\* C14: a run whose queue holds one PDF file and one TXT file raises the
\* precondition error about only one PDF file being allowed before any
\* network call: it sends no request.
C14_PdfPlusTxt ==
    \A r \in RunIds :
        LET queue == runs[r].queue
        IN  /\ runs[r].kind = "upload"
            /\ Len(queue) = 2
            /\ \E j, k \in 1..2 : queue[j].name = PdfFile /\ queue[k].name = TxtFile
            => /\ runs[r].pc = "aborted"
               /\ runs[r].sent = <<>>

\* the results without an error at Download All number a, and the downloads
\* that action has started so far
NonErrorAt(a) == SelectSeq(downloadAlls[a].results, LAMBDA e : e.error = NULL)
StartedBy(a) == SelectSeq(started, LAMBDA d : d.act = a)

C21_FailedDownload ==
    [][ Len(dlLog') = Len(dlLog) + 1 =>
          LET outcome == dlLog'[Len(dlLog')]
          IN  /\ outcome = "failed" =>
                    /\ error' = "download"
                    /\ results' = results
                    /\ sessionId' = sessionId
              /\ outcome = "refused" =>
                    /\ error' = "download"
                    /\ downloads' = downloads
                    /\ results' = results
                    /\ sessionId' = sessionId ]_vars

\* one download of a shown result has failed and another, of a result
\* without session id, was refused; the results are still shown
C21_Witness ==
    /\ \E i, j \in 1..Len(dlLog) : dlLog[i] = "failed" /\ dlLog[j] = "refused"
    /\ Len(results) = 2
    /\ error = "download"

\* the characters of [a-zA-Z0-9._- ]
Permitted == {"a", "7", ".", "_", "-", " "}

\* a name without its underscores
NoUnderscores(name) == SelectSeq(name, LAMBDA c : c # "_")

\* C22: the saved filename holds only characters of [a-zA-Z0-9._- ], the
\* space being the only whitespace; every other character of the report
\* filename is replaced by an underscore, no two underscores follow each
\* other, and the permitted characters are kept in their order.
C22_SavedName ==
    savedAs.done =>
        /\ \A k \in 1..Len(savedAs.name) : savedAs.name[k] \in Permitted
        /\ \A k \in 1..(Len(savedAs.name) - 1) :
              ~(savedAs.name[k] = "_" /\ savedAs.name[k + 1] = "_")
        /\ NoUnderscores(savedAs.name) =
              NoUnderscores(SelectSeq(filenameIn, LAMBDA c : c \in Permitted))

\* C23: in a batched run with T chunks, once chunk k has finished and
\* during the delay that follows it the reported progress is
\* round(k / T * 100), and the progress is 100 when the run has ended.
C23_Progress ==
    Latest > 0 /\ isBatched(runs[Latest].kind) =>
        LET run == runs[Latest]
        IN  /\ run.pc = "delay" =>
                  batchProgress = RoundPct(run.batchIndex + 1, run.totalBatches)
            /\ run.pc = "done" => batchProgress = 100

\* a text that only the line-marker loop can split: no empty line, no
\* separator line
OnlyMarkersSplit(t) == \A k \in 1..Len(t) : t[k] # "" /\ ~LineInfo(t[k]).sep

\* C24: in the line-marker split a line starts a new essay only when a
\* marker is at the start of the line and the accumulator holds content: a
\* line with a marker after its first character starts no essay, and the
\* first marker line gives no empty leading essay.
C24_MarkerAtStart ==
    splitOutput.done /\ OnlyMarkersSplit(splitInput) =>
        /\ \A k \in 1..Len(splitOutput.essays) : HasContent(splitOutput.essays[k])
        /\ \A k \in 2..Len(splitOutput.essays) :
              LineInfo(splitOutput.essays[k][1]).start

\* C25: a file-upload run that has ended has dispatched every file of its
\* queue exactly once, in queue order, whatever the answers were: no queued
\* file is left undispatched.
C25_EveryFileOnce ==
    \A r \in RunIds :
        runs[r].kind \in {"upload", "uploadBatch"} /\ runs[r].pc = "done" =>
            /\ Len(runs[r].sent) = Len(runs[r].queue)
            /\ Consecutive(runs[r].sent)

\* C27: while a submission run is in progress (a request of it in flight, or
\* its inter-batch delay running) isLoading is true, so Evaluate stays
\* disabled; a report download that starts and ends during the run does not
\* change that.
C27_LoadingWhileRunning ==
    (\E r \in RunIds : runs[r].pc \in {"fetch", "delay"}) => isLoading

\* C26: when every request gets an answer, a submission run that is in
\* progress is followed by a state with isLoading false, so that Evaluate can
\* be used again: for upload runs, batched paste runs and single-request
\* paste runs, with answers that succeed or fail.
C26_BackToIdle ==
    (\E r \in RunIds : runs[r].pc \in {"fetch", "delay"}) ~> ~isLoading

\* C28: a call of handleSubmit that one of its checks ends (no file on the
\* upload tab, blank text on the paste tab, key missing or not verified)
\* issues no request and leaves the results, the evaluations and the session
\* id of the previous run as they were.
C28_RejectedFrame ==
    [][rejections' # rejections =>
          /\ UNCHANGED << results, evaluations, sessionId >>
          /\ UNCHANGED << inflight, runs >>]_vars

\* a call was rejected while results of an earlier run were shown
C28_Witness ==
    rejections > 0 /\ Len(results) > 0 /\ sessionId # NULL

\* the essay an entry of `evaluations` or of `results` is about
EssayOf(e) == << e.run, e.ix, e.part >>

\* C29: the evaluations sent by Download All describe exactly the results
\* shown when it is sent: as many evaluations as results, and no evaluation of
\* an essay whose result was removed.
C29_ZipMatchesShown ==
    \A k \in 1..Len(zipLog) :
        /\ Len(zipLog[k].evaluations) = Len(zipLog[k].shown)
        /\ \A j \in 1..Len(zipLog[k].evaluations) :
              \E i \in 1..Len(zipLog[k].shown) :
                  EssayOf(zipLog[k].shown[i]) = EssayOf(zipLog[k].evaluations[j])

\* C30: whatever files were added and removed, the queue holds at most
\* MAX_FILES files, and at most one of them is a PDF file.
C30_QueueBounds ==
    /\ Len(files) <= MAX_FILES
    /\ Cardinality({k \in 1..Len(files) : isPdf(files[k])}) <= 1

====
